---------------------------- MODULE Spec2Model ----------------------------
(***************************************************************************)
(* A model of the OLS consistency demo (zhaoguochang/ols-demo):            *)
(*   utils/math.ts  seededRandom, randomNormal, calculateOLS               *)
(*   App.tsx        generatePoints, updateSimulation, resetSimulation      *)
(*   components/MainPlot.tsx  the controls of ControlPanel                 *)
(*                                                                         *)
(* Numbers.  A JavaScript number is modelled as a pair <<n, d>>:           *)
(*   d > 0   the rational n/d in lowest terms,                             *)
(*   <<1,0>> +Infinity,  <<-1,0>> -Infinity,  <<0,0>> NaN.                 *)
(* Every operation computes the exact rational result and then rounds it   *)
(* as IEEE 754 does, to the nearest number with `precision` significant    *)
(* bits (ties to even), overflowing to +-Infinity above MaxFloat.  The     *)
(* format is scaled down: MantBits bits for the 53 of a double, MaxFloat   *)
(* for Number.MAX_VALUE, 2^-FracBits for the smallest spacing.  The        *)
(* specifications of the program run with precision = MantBits; the        *)
(* exact-arithmetic specification runs with precision = 0, which rounds    *)
(* nothing.  Signed zero is not modelled: calculateOLS never divides by a  *)
(* zero it has not tested for.                                             *)
(*                                                                         *)
(* 32-bit words.  The hash works on int32/uint32 values, which do not fit  *)
(* the model checker's integers when unsigned, so a word is a pair         *)
(* <<hi, lo>> of 16-bit halves standing for hi * 2^16 + lo.                *)
(***************************************************************************)
EXTENDS Integers, Sequences, FiniteSets

VARIABLES
    precision,  \* significant bits the arithmetic keeps (0: exact rationals)
    rn,         \* the activation of randomNormal: pc, arguments, u, v, result
    gp,         \* the activation of generatePoints: pc, arguments, i, points
    reads,      \* RNG slots read by the current generatePoints activation
    lastGen,    \* a remembered earlier generatePoints call and its result
    olsPc,      \* where the caller of calculateOLS is: idle, generate, fit, done
    olsData,    \* the argument `data` of calculateOLS
    olsResult,  \* what calculateOLS returned for olsData
    drv,        \* the driver's sample bookkeeping (App state at id level)
    app         \* the App state: params, isRunning, data, ols, history

vars == <<precision, rn, gp, reads, lastGen, olsPc, olsData, olsResult, drv, app>>

----------------------------------------------------------------------------
(* Bounds of the model *)

\* Stand-in for Number.MAX_VALUE: a finite result above it is +-Infinity.
MaxFloat == 10000
\* Significant bits of the scaled-down double (53 in the program).
MantBits == 4
\* The scaled-down doubles are multiples of 2^-FracBits (2^-1074 in the program).
FracBits == 8
\* Indexes 0..MaxIndex are passed to randomNormal.
MaxIndex == 3
\* generatePoints is called with count in 0..MaxCount, startId in 0..MaxStartId.
MaxCount == 3
MaxStartId == 3
\* Fractional bits a double keeps of a uniform variate k / 2^32 once it enters
\* floating-point arithmetic (53 in the program).
UnitBits == 2
\* Points in an input of calculateOLS.
MaxPoints == 3
\* Ticks of the driver between two resets.
MaxTicks == 3

----------------------------------------------------------------------------
(* JavaScript numbers *)

NaN == <<0, 0>>
PosInf == <<1, 0>>
NegInf == <<-1, 0>>

Abs(i) == IF i < 0 THEN -i ELSE i
Sign(i) == IF i < 0 THEN -1 ELSE IF i > 0 THEN 1 ELSE 0

RECURSIVE Gcd(_, _)
Gcd(a, b) == IF b = 0 THEN a ELSE Gcd(b, a % b)

IsNaN(x) == x = NaN
IsFinite(x) == x[2] # 0
IsInf(x) == x[2] = 0 /\ x[1] # 0

RECURSIVE Pow2(_)
Pow2(s) == IF s = 0 THEN 1 ELSE 2 * Pow2(s - 1)

RECURSIVE BitLength(_)
BitLength(i) == IF i = 0 THEN 0 ELSE 1 + BitLength(i \div 2)

\* a / d rounded to the nearest integer, ties to even
RoundHalfEven(a, d) ==
    IF 2 * (a % d) > d THEN (a \div d) + 1
    ELSE IF 2 * (a % d) = d THEN (a \div d) + ((a \div d) % 2)
    ELSE a \div d

\* The binary places s <= FracBits after the point that p significant bits of
\* a / d (below 2^p) reach
RECURSIVE PlacesOf(_, _, _, _)
PlacesOf(a, d, s, p) ==
    IF s < FracBits /\ (2 * a) \div d < Pow2(p) THEN PlacesOf(2 * a, d, s + 1, p) ELSE s

\* a / d >= 0 rounded to p significant bits, as a fraction <<n, d>>
RoundTo(a, d, p) ==
    IF p = 0 THEN <<a, d>>
    ELSE IF a \div d >= Pow2(p)
         THEN CHOOSE r \in {<<RoundHalfEven(a, d * e) * e, 1>> :
                              e \in {Pow2(BitLength(a \div d) - p)}} : TRUE
         ELSE CHOOSE r \in {<<RoundHalfEven(a * e, d), e>> :
                              e \in {Pow2(PlacesOf(a, d, 0, p))}} : TRUE

\* A rounded fraction in lowest terms, +-Infinity above MaxFloat
Finish(sign, r0) ==
    CHOOSE x \in
      {IF (r[1] \div r[2]) > MaxFloat \/ ((r[1] \div r[2]) = MaxFloat /\ r[1] % r[2] # 0)
       THEN <<sign, 0>>
       ELSE <<sign * (r[1] \div g), r[2] \div g>> :
         r \in {r0}, g \in {Gcd(r0[1], r0[2])}} : TRUE

\* The number n/d (d > 0) as a double: rounded to `precision` bits, in lowest
\* terms, +-Infinity on overflow.
Fin(n0, d0) ==
    CHOOSE x \in
      {Finish(Sign(n), RoundTo(Abs(n) \div g, d \div g, precision)) :
         n \in {n0}, d \in {d0}, g \in {Gcd(Abs(n0), d0)}} : TRUE

\* In the operators below each operand is evaluated once and bound (x \in {x0})
\* before its parts are read.

Num(i) == Fin(i, 1)

Neg(x0) == CHOOSE r \in {<<-x[1], x[2]>> : x \in {x0}} : TRUE

\* x + y of two finite numbers
AddFin(x, y, g) ==
    Fin(x[1] * (y[2] \div g) + y[1] * (x[2] \div g), x[2] * (y[2] \div g))

\* x + y
Add(x0, y0) ==
    CHOOSE r \in
      {IF IsNaN(x) \/ IsNaN(y) THEN NaN
       ELSE IF IsInf(x) /\ IsInf(y) THEN (IF x = y THEN x ELSE NaN)
       ELSE IF IsInf(x) THEN x
       ELSE IF IsInf(y) THEN y
       ELSE AddFin(x, y, Gcd(x[2], y[2])) : x \in {x0}, y \in {y0}} : TRUE

\* x - y
Sub(x, y) == Add(x, Neg(y))

\* (a/b) * (c/d) of finite numbers with common factors cancelled; +-Infinity
\* when the integer parts alone exceed MaxFloat
MulFin(a, b, c, d) ==
    IF (Abs(a) \div b) * (Abs(c) \div d) > MaxFloat
    THEN <<Sign(a) * Sign(c), 0>>
    ELSE Fin(a * c, b * d)

\* x * y
Mul(x0, y0) ==
    CHOOSE r \in
      {IF IsNaN(x) \/ IsNaN(y) THEN NaN
       ELSE IF IsInf(x) \/ IsInf(y)
            THEN (IF x[1] = 0 \/ y[1] = 0 THEN NaN ELSE <<Sign(x[1]) * Sign(y[1]), 0>>)
       ELSE CHOOSE m \in
              {MulFin(x[1] \div g1, x[2] \div g2, y[1] \div g2, y[2] \div g1) :
                 g1 \in {Gcd(Abs(x[1]), y[2])}, g2 \in {Gcd(Abs(y[1]), x[2])}} : TRUE :
         x \in {x0}, y \in {y0}} : TRUE

\* x / y
Div(x0, y0) ==
    CHOOSE r \in
      {IF IsNaN(x) \/ IsNaN(y) THEN NaN
       ELSE IF IsInf(y) THEN (IF IsInf(x) THEN NaN ELSE <<0, 1>>)
       ELSE IF y[1] = 0 THEN (IF x[1] = 0 THEN NaN ELSE <<Sign(x[1]), 0>>)
       ELSE IF IsInf(x) THEN <<Sign(x[1]) * Sign(y[1]), 0>>
       ELSE Mul(x, <<Sign(y[1]) * y[2], Abs(y[1])>>) : x \in {x0}, y \in {y0}} : TRUE

\* x === y (NaN equals nothing)
StrictEq(x0, y0) ==
    \E x \in {x0}, y \in {y0} : ~IsNaN(x) /\ ~IsNaN(y) /\ x = y

\* x > y (false when either is NaN)
Greater(x0, y0) ==
    \E x \in {x0}, y \in {y0} :
        /\ ~IsNaN(x) /\ ~IsNaN(y) /\ x # y
        /\ IF IsInf(x) THEN x = PosInf
           ELSE IF IsInf(y) THEN y = NegInf
           ELSE x[1] * y[2] > y[1] * x[2]

\* The largest r with r * r <= n, by bisection of lo..hi (lo*lo <= n < hi*hi).
RECURSIVE IsqrtIter(_, _, _)
IsqrtIter(n, lo, hi) ==
    IF hi - lo <= 1 THEN lo
    ELSE LET mid == (lo + hi) \div 2
         IN  IF mid * mid <= n THEN IsqrtIter(n, mid, hi) ELSE IsqrtIter(n, lo, mid)

Isqrt(n) == IsqrtIter(n, 0, (IF n < 46340 THEN n ELSE 46340) + 1)
IsqrtUp(n) == LET r == Isqrt(n) IN IF r * r = n THEN r ELSE r + 1

\* Math.sqrt: exact on squares of rationals, else rounded toward zero (the
\* numerator's root rounded down, the denominator's up); never 0 for x > 0.
Sqrt(x0) ==
    CHOOSE r \in
      {IF IsNaN(x) \/ x[1] < 0 THEN NaN
       ELSE IF IsInf(x) THEN PosInf
       ELSE Fin(Isqrt(x[1]), IsqrtUp(x[2])) : x \in {x0}} : TRUE

----------------------------------------------------------------------------
(* 32-bit integer operations on words <<hi, lo>> *)

Half == 65536

RECURSIVE BitXor(_, _)
BitXor(a, b) ==
    IF a = 0 THEN b
    ELSE IF b = 0 THEN a
    ELSE 2 * BitXor(a \div 2, b \div 2) + ((a + b) % 2)

RECURSIVE BitOr(_, _)
BitOr(a, b) ==
    IF a = 0 THEN b
    ELSE IF b = 0 THEN a
    ELSE 2 * BitOr(a \div 2, b \div 2) + (IF a % 2 = 1 \/ b % 2 = 1 THEN 1 ELSE 0)

\* In the operators below each operand is evaluated once and bound (x \in {x0})
\* before its halves are read.

\* ToUint32 of an integer-valued number i (|i| < 2^31): i modulo 2^32.
ToWord(i0) == CHOOSE w \in {<<(i \div Half) % Half, i % Half>> : i \in {i0}} : TRUE

\* a ^ b
Xor32(a0, b0) ==
    CHOOSE w \in {<<BitXor(a[1], b[1]), BitXor(a[2], b[2])>> : a \in {a0}, b \in {b0}} : TRUE

\* a | c for a constant c < 2^16
Or32(a0, c) == CHOOSE w \in {<<a[1], BitOr(a[2], c)>> : a \in {a0}} : TRUE

\* a >>> s, 0 < s < 16
Shr32(a0, s) ==
    CHOOSE w \in {<<a[1] \div p, (a[2] \div p) + (a[1] % p) * (Half \div p)>> :
                     a \in {a0}, p \in {Pow2(s)}} : TRUE

\* (a + b) modulo 2^32: what a following ^ keeps of the sum of two int32
Add32(a0, b0) ==
    CHOOSE w \in {<<(a[1] + b[1] + ((a[2] + b[2]) \div Half)) % Half, (a[2] + b[2]) % Half>> :
                     a \in {a0}, b \in {b0}} : TRUE

\* (x * y) modulo 2^16 for 16-bit x, y, by bytes of y (no overflow past 2^31)
MulMod16(x, y) == (x * (y % 256) + ((x * (y \div 256)) % 256) * 256) % Half

\* The carry of x * y into the upper half, modulo 2^16
MulHigh16(x, y) ==
    LET p0 == x * (y % 256)
        p1 == x * (y \div 256)
    IN  ((p0 + (p1 % 256) * 256) \div Half + p1 \div 256) % Half

\* Math.imul(a, b): the low 32 bits of the product
Imul(a0, b0) ==
    CHOOSE w \in {<<(MulHigh16(a[2], b[2]) + MulMod16(a[2], b[1]) + MulMod16(a[1], b[2])) % Half,
                    MulMod16(a[2], b[2])>> : a \in {a0}, b \in {b0}} : TRUE

\* The int32 value of a bit pattern, as <<hi, lo>> with hi signed.
ToInt32(w0) ==
    CHOOSE r \in {<<IF w[1] >= 32768 THEN w[1] - Half ELSE w[1], w[2]>> : w \in {w0}} : TRUE

\* x >>> 0: the uint32 value of an int32.
ToUint32(w0) == CHOOSE r \in {<<w[1] % Half, w[2]>> : w \in {w0}} : TRUE

----------------------------------------------------------------------------
(* utils/math.ts: seededRandom *)

\* 0x6D2B79F5
HashMultiplier == <<27947, 31221>>

\* let t = (seed + index * 0x6D2B79F5), as the first bitwise operator reads it
\* (modulo 2^32).  The double sum is exact while |t| < 2^53.
HashInput(seed, index) == Add32(ToWord(seed), Imul(ToWord(index), HashMultiplier))

\* t = Math.imul(t ^ (t >>> 15), t | 1)
HashRound1(t0) ==
    CHOOSE r \in {Imul(Xor32(t, Shr32(t, 15)), Or32(t, 1)) : t \in {t0}} : TRUE

\* t ^= t + Math.imul(t ^ (t >>> 7), t | 61)
HashRound2(t0) ==
    CHOOSE r \in {Xor32(t, Add32(t, Imul(Xor32(t, Shr32(t, 7)), Or32(t, 61)))) :
                     t \in {t0}} : TRUE

\* (t ^ (t >>> 14)), an int32
HashFinal(t0) == CHOOSE r \in {ToInt32(Xor32(t, Shr32(t, 14))) : t \in {t0}} : TRUE

\* The three mixing steps of lines 11-13 on the input word t.
HashMix(t) == HashFinal(HashRound2(HashRound1(t)))

\* Bug variant of seededRandom: a generator with memory, whose stream moves on
\* with every point the running call has stored.
seededRandomCounting(seed, index) ==
    ToUint32(HashMix(HashInput(seed + Len(gp.points), index)))

\* Bug variant of seededRandom: the final `>>> 0` forgotten, so the int32 is
\* divided as it is.
seededRandomSigned(seed, index) == HashMix(HashInput(seed, index))

\* seededRandom(seed, index): the integer k = <<hi, lo>> of the returned
\* double k / 4294967296 (exact: k has 32 bits).
seededRandom(seed, index) == ToUint32(HashMix(HashInput(seed, index)))

\* k / 4294967296 === 0
UnitIsZero(k) == k = <<0, 0>>

----------------------------------------------------------------------------
(* utils/math.ts: randomNormal *)

\* The double k / 2^32 as an operand of floating-point arithmetic: its first
\* UnitBits fractional bits.
UnitToNum(k0) ==
    CHOOSE r \in {Fin(k[1] \div Pow2(16 - UnitBits), Pow2(UnitBits)) : k \in {k0}} : TRUE

\* Math.log(u) for u = k / 2^32: floor(log2 u) * ln 2 with ln 2 taken as 7/10;
\* Math.log(0) is -Infinity.
Log(k0) ==
    CHOOSE r \in
      {IF UnitIsZero(k) THEN NegInf
       ELSE Fin(7 * ((IF k[1] > 0 THEN 16 + BitLength(k[1]) ELSE BitLength(k[2])) - 33), 10) :
         k \in {k0}} : TRUE

\* Math.cos(2.0 * Math.PI * v) for v = k / 2^32, v rounded down to a quarter
\* turn: 1, 0, -1, 0.
Cos2Pi(k) == Num(<<1, 0, -1, 0>>[(k[1] \div 16384) + 1])

\* const z = Math.sqrt(-2.0 * Math.log(u)) * Math.cos(2.0 * Math.PI * v);
\* return mean + z * stdDev;
BoxMuller(mean, stdDev, u, v) ==
    CHOOSE r \in {Add(mean, Mul(z, stdDev)) :
                     z \in {Mul(Sqrt(Mul(Num(-2), Log(u))), Cos2Pi(v))}} : TRUE

\* The two slots randomNormal reads: index * 2 and index * 2 + 1
USlot(index) == index * 2
VSlot(index) == index * 2 + 1

\* Whether both rejection loops of randomNormal(.., seed, index) exit.
randomNormalReturns(seed, index) ==
    /\ ~UnitIsZero(seededRandom(seed, USlot(index)))
    /\ ~UnitIsZero(seededRandom(seed, VSlot(index)))

\* What randomNormal(mean, stdDev, seed, index) returns when it returns.
randomNormal(mean, stdDev, seed, index) ==
    BoxMuller(mean, stdDev, seededRandom(seed, USlot(index)), seededRandom(seed, VSlot(index)))

\* randomNormal as a process: one step per loop test and per loop body.
RnIdle ==
    [pc |-> "idle", mean |-> Num(0), stdDev |-> Num(0), seed |-> 0, index |-> 0,
     u |-> <<0, 0>>, v |-> <<0, 0>>, ret |-> Num(0)]

\* let u = 0, v = 0;
RnCall(mean, stdDev, seed, index) ==
    /\ rn.pc = "idle"
    /\ rn' = [RnIdle EXCEPT !.pc = "test_u", !.mean = mean, !.stdDev = stdDev,
                            !.seed = seed, !.index = index]
    /\ UNCHANGED <<precision, gp, reads, lastGen, olsPc, olsData, olsResult, drv, app>>

\* while (u === 0)
RnTestU ==
    /\ rn.pc = "test_u"
    /\ rn' = [rn EXCEPT !.pc = IF UnitIsZero(rn.u) THEN "body_u" ELSE "test_v"]
    /\ UNCHANGED <<precision, gp, reads, lastGen, olsPc, olsData, olsResult, drv, app>>

\* u = seededRandom(seed, index * 2);
RnBodyU ==
    /\ rn.pc = "body_u"
    /\ rn' = [rn EXCEPT !.pc = "test_u", !.u = seededRandom(rn.seed, USlot(rn.index))]
    /\ UNCHANGED <<precision, gp, reads, lastGen, olsPc, olsData, olsResult, drv, app>>

\* while (v === 0)
RnTestV ==
    /\ rn.pc = "test_v"
    /\ rn' = [rn EXCEPT !.pc = IF UnitIsZero(rn.v) THEN "body_v" ELSE "transform"]
    /\ UNCHANGED <<precision, gp, reads, lastGen, olsPc, olsData, olsResult, drv, app>>

\* v = seededRandom(seed, index * 2 + 1);
RnBodyV ==
    /\ rn.pc = "body_v"
    /\ rn' = [rn EXCEPT !.pc = "test_v", !.v = seededRandom(rn.seed, VSlot(rn.index))]
    /\ UNCHANGED <<precision, gp, reads, lastGen, olsPc, olsData, olsResult, drv, app>>

\* lines 25-26: the transform and the return
RnReturn ==
    /\ rn.pc = "transform"
    /\ rn' = [rn EXCEPT !.pc = "done",
                        !.ret = BoxMuller(rn.mean, rn.stdDev, rn.u, rn.v)]
    /\ UNCHANGED <<precision, gp, reads, lastGen, olsPc, olsData, olsResult, drv, app>>

\* The caller takes the result; the next call may start.
RnNextCall ==
    /\ rn.pc = "done"
    /\ rn' = RnIdle
    /\ UNCHANGED <<precision, gp, reads, lastGen, olsPc, olsData, olsResult, drv, app>>

----------------------------------------------------------------------------
(* App.tsx: the parameters and generatePoints *)

\* useState<SimulationParams>({...}): the parameters after construction
DefaultParams ==
    [trueSlope |-> Fin(3, 2), trueIntercept |-> Num(2), noiseLevel |-> Num(2),
     batchSize |-> 1, speed |-> 50, minSampleSize |-> 10, maxSampleSize |-> 2000,
     samplingMode |-> "cumulative", seed |-> 42]

\* const id = startId + i;
IdOfBatchPosition(startId, i) == i
IdOf(startId, i) == startId + i

\* seededRandom(currentParams.seed, id * 100): the slot of x
XSlot(id) == id * 100

\* randomNormal(0, noiseLevel, seed, id * 100 + 1): the index of the error
NoiseIndexNoOffset(id) == id * 100
NoiseIndex(id) == id * 100 + 1

\* The slots one point reads, each with the draw that reads it.
SlotsOf(id) ==
    {[id |-> id, draw |-> "x", slot |-> XSlot(id)],
     [id |-> id, draw |-> "u", slot |-> USlot(NoiseIndex(id))],
     [id |-> id, draw |-> "v", slot |-> VSlot(NoiseIndex(id))]}

\* The body of the loop for one id: lines 48-56.
PointOf(id0, currentParams) ==
    CHOOSE p \in
      {[id |-> id, x |-> x,
        y |-> Add(Add(currentParams.trueIntercept, Mul(currentParams.trueSlope, x)),
                  randomNormal(Num(0), currentParams.noiseLevel, currentParams.seed,
                               NoiseIndex(id)))] :
         id \in {id0},
         x \in {Mul(UnitToNum(seededRandom(currentParams.seed, XSlot(id0))), Num(10))}} : TRUE

\* Whether the body returns for this id: randomNormal's loops exit.
PointReturns(id, currentParams) == randomNormalReturns(currentParams.seed, NoiseIndex(id))

\* for (let i = 0; i < count; i++)
LoopContinuesInclusive(i, count) == i <= count
LoopContinues(i, count) == i < count

\* generatePoints(count, startId, currentParams): the loop, from position i
\* with the points pushed so far.
RECURSIVE GenerateFrom(_, _, _, _, _)
GenerateFrom(i, points, count, startId, currentParams) ==
    IF LoopContinues(i, count)
    THEN GenerateFrom(i + 1, Append(points, PointOf(IdOf(startId, i), currentParams)),
                      count, startId, currentParams)
    ELSE points

generatePoints(count, startId, currentParams) ==
    GenerateFrom(0, <<>>, count, startId, currentParams)

\* generatePoints as a process: one step per iteration.
GpIdle ==
    [pc |-> "idle", count |-> 0, startId |-> 0, currentParams |-> DefaultParams,
     i |-> 0, points |-> <<>>]
LastGenNone ==
    [called |-> FALSE, count |-> 0, startId |-> 0, currentParams |-> DefaultParams,
     points |-> <<>>]

\* const points: DataPoint[] = []; let i = 0
GpCall(count, startId, currentParams) ==
    /\ gp.pc = "idle"
    /\ gp' = [GpIdle EXCEPT !.pc = "loop", !.count = count, !.startId = startId,
                            !.currentParams = currentParams]
    /\ reads' = {}
    /\ UNCHANGED <<precision, rn, lastGen, olsPc, olsData, olsResult, drv, app>>

\* One iteration: lines 42-56 and i++.  It is taken only if randomNormal
\* returns.
GpIterate ==
    /\ gp.pc = "loop"
    /\ LoopContinues(gp.i, gp.count)
    /\ PointReturns(IdOf(gp.startId, gp.i), gp.currentParams)
    /\ gp' = [gp EXCEPT !.i = gp.i + 1,
                        !.points = Append(gp.points,
                                          PointOf(IdOf(gp.startId, gp.i), gp.currentParams))]
    /\ reads' = reads \cup SlotsOf(IdOf(gp.startId, gp.i))
    /\ UNCHANGED <<precision, rn, lastGen, olsPc, olsData, olsResult, drv, app>>

\* return points;
GpReturn ==
    /\ gp.pc = "loop"
    /\ ~LoopContinues(gp.i, gp.count)
    /\ gp' = [gp EXCEPT !.pc = "done"]
    /\ UNCHANGED <<precision, rn, reads, lastGen, olsPc, olsData, olsResult, drv, app>>

\* The caller keeps the result; the next call may start.
GpNextCall ==
    /\ gp.pc = "done"
    /\ lastGen' = [called |-> TRUE, count |-> gp.count, startId |-> gp.startId,
                   currentParams |-> gp.currentParams, points |-> gp.points]
    /\ gp' = GpIdle
    /\ UNCHANGED <<precision, rn, reads, olsPc, olsData, olsResult, drv, app>>

----------------------------------------------------------------------------
(* calculateOLS (utils/math.ts)                                            *)

\* return { slope: 0, intercept: 0, rSquared: 0, slopeStdErr: 0 };
OlsZero == [slope |-> <<0, 1>>, intercept |-> <<0, 1>>, rSquared |-> <<0, 1>>,
            slopeStdErr |-> <<0, 1>>]

\* if (n < 3)
TooFew(n) == n < 3

SumsZero == [sumX |-> <<0, 1>>, sumY |-> <<0, 1>>, sumXY |-> <<0, 1>>,
             sumXX |-> <<0, 1>>, sumYY |-> <<0, 1>>]

\* One pass of the first loop: sumX += x; ... sumYY += y * y;
SumsStep(sums0, point0) ==
    CHOOSE r \in
      {[sumX  |-> Add(sums.sumX, pt.x),
        sumY  |-> Add(sums.sumY, pt.y),
        sumXY |-> Add(sums.sumXY, Mul(pt.x, pt.y)),
        sumXX |-> Add(sums.sumXX, Mul(pt.x, pt.x)),
        sumYY |-> Add(sums.sumYY, Mul(pt.y, pt.y))] :
         sums \in {sums0}, pt \in {point0}} : TRUE

\* for (let i = 0; i < n; i++) over the first loop, from pass i
RECURSIVE SumsFrom(_, _, _)
SumsFrom(i, sums, data) ==
    IF i <= Len(data) THEN SumsFrom(i + 1, SumsStep(sums, data[i]), data) ELSE sums

\* const denominator = n * sumXX - sumX * sumX;
DenominatorUnscaled(n, sums) == Sub(sums.sumXX, Mul(sums.sumX, sums.sumX))
Denominator(n, sums) == Sub(Mul(Num(n), sums.sumXX), Mul(sums.sumX, sums.sumX))

\* const slope = (n * sumXY - sumX * sumY) / denominator;
SlopeUncentred(n, sums, denominator) == Div(Mul(Num(n), sums.sumXY), denominator)
Slope(n, sums, denominator) ==
    Div(Sub(Mul(Num(n), sums.sumXY), Mul(sums.sumX, sums.sumY)), denominator)

\* const intercept = (sumY - slope * sumX) / n;
InterceptNoDivide(n, sums, slope) == Sub(sums.sumY, Mul(slope, sums.sumX))
Intercept(n, sums, slope) == Div(Sub(sums.sumY, Mul(slope, sums.sumX)), Num(n))

\* const meanY = sumY / n;
MeanY(n, sums) == Div(sums.sumY, Num(n))

\* v ** 2
Square(v0) == CHOOSE r \in {Mul(v, v) : v \in {v0}} : TRUE

\* One pass of the second loop: ssTot += (y - meanY) ** 2; ssRes += (y - predictedY) ** 2;
SsStep(ss0, point0, slope, intercept, meanY) ==
    CHOOSE r \in
      {[ssTot |-> Add(ss.ssTot, Square(Sub(pt.y, meanY))),
        ssRes |-> Add(ss.ssRes, Square(Sub(pt.y, predictedY)))] :
         ss \in {ss0}, pt \in {point0},
         predictedY \in {Add(Mul(slope, point0.x), intercept)}} : TRUE

RECURSIVE SsFrom(_, _, _, _, _, _)
SsFrom(i, ss, data, slope, intercept, meanY) ==
    IF i <= Len(data)
    THEN SsFrom(i + 1, SsStep(ss, data[i], slope, intercept, meanY), data,
                slope, intercept, meanY)
    ELSE ss

\* const rSquared = ssTot === 0 ? 0 : 1 - (ssRes / ssTot);
RSquared(ss) ==
    IF StrictEq(ss.ssTot, <<0, 1>>) THEN <<0, 1>> ELSE Sub(Num(1), Div(ss.ssRes, ss.ssTot))

\* const sxx = sumXX - (sumX * sumX) / n;
Sxx(n, sums) == Sub(sums.sumXX, Div(Mul(sums.sumX, sums.sumX), Num(n)))

\* const varError = ssRes / (n - 2);
VarError(n, ss) == Div(ss.ssRes, Num(n - 2))

\* const slopeStdErr = sxx > 0 ? Math.sqrt(varError / sxx) : 0;
SlopeStdErr(sxx0, varError) ==
    CHOOSE r \in
      {IF Greater(sxx, <<0, 1>>) THEN Sqrt(Div(varError, sxx)) ELSE <<0, 1>> :
         sxx \in {sxx0}} : TRUE

\* Number.isNaN(v) ? 0 : v
NanToZero(v) == IF IsNaN(v) THEN <<0, 1>> ELSE v

\* The statements after the second loop, and the returned object
OlsResultOf(n, sums, slope, intercept, ss0) ==
    CHOOSE r \in
      {[slope       |-> NanToZero(slope),
        intercept   |-> NanToZero(intercept),
        rSquared    |-> NanToZero(RSquared(ss)),
        slopeStdErr |-> NanToZero(SlopeStdErr(Sxx(n, sums), VarError(n, ss)))] :
         ss \in {ss0}} : TRUE

\* The statements from the slope to the end of the second loop
OlsFit(data, n, sums, slope0) ==
    CHOOSE r \in
      {OlsResultOf(n, sums, slope, intercept,
                   SsFrom(1, [ssTot |-> <<0, 1>>, ssRes |-> <<0, 1>>], data,
                          slope, intercept, MeanY(n, sums))) :
         slope \in {slope0}, intercept \in {Intercept(n, sums, slope0)}} : TRUE

\* The statements after the first loop
OlsFromSums(data, n, sums0) ==
    CHOOSE r \in
      {IF StrictEq(denominator, <<0, 1>>)
       THEN OlsZero
       ELSE OlsFit(data, n, sums, Slope(n, sums, denominator)) :
         sums \in {sums0}, denominator \in {Denominator(n, sums0)}} : TRUE

calculateOLS(data0) ==
    CHOOSE r \in
      {IF TooFew(Len(data))
       THEN OlsZero
       ELSE OlsFromSums(data, Len(data), SumsFrom(1, SumsZero, data)) :
         data \in {data0}} : TRUE

\* The caller drops the result (the earlier result stays remembered); the
\* next call may start.
GpDiscard ==
    /\ gp.pc = "done"
    /\ gp' = GpIdle
    /\ UNCHANGED <<precision, rn, reads, lastGen, olsPc, olsData, olsResult, drv, app>>

----------------------------------------------------------------------------
(* The simulation driver (App.tsx) and its controls (ControlPanel in       *)
(* components/MainPlot.tsx), at the level of point ids: the data is kept   *)
(* as its length, and each step records the ids generatePoints was asked   *)
(* for (startId .. startId + count - 1, see C8).  An id is the pair        *)
(* <<q, r>> standing for q * IdBlock + r, which is how far the start ids   *)
(* nextN * 100000 go beyond the 32-bit integers TLC computes with.         *)

\* generatePoints(nextN, nextN * 100000, params)
IdBlock == 100000

NoStep == [kind |-> "none", mode |-> "cumulative", start |-> <<0, 0>>, count |-> 0]

\* const [params, setParams] = useState(...); isRunning false; and the data
\* of the initial load, resetSimulation() from the mount effect
DrvInit ==
    [minSampleSize |-> 10, maxSampleSize |-> 2000, batchSize |-> 1,
     samplingMode |-> "cumulative", isRunning |-> FALSE, length |-> 10, ticks |-> 0,
     prev |-> NoStep,
     last |-> [kind |-> "reset", mode |-> "cumulative", start |-> <<0, 0>>, count |-> 10]]

IdPlus(id, c) == <<id[1] + ((id[2] + c) \div IdBlock), (id[2] + c) % IdBlock>>
IdLeq(a, b) == a[1] < b[1] \/ (a[1] = b[1] /\ a[2] <= b[2])

\* The id sets of two calls of generatePoints share no id
StepsDisjoint(a, b) ==
    \/ a.count <= 0
    \/ b.count <= 0
    \/ IdLeq(IdPlus(a.start, a.count), b.start)
    \/ IdLeq(IdPlus(b.start, b.count), a.start)

Min(a, b) == IF a < b THEN a ELSE b

\* let nextN = Math.min(currentN + params.batchSize, params.maxSampleSize);
NextN(d) == Min(d.length + d.batchSize, d.maxSampleSize)

\* generatePoints(pointsToAdd, currentN, params)
CumulativeStep(d) ==
    [kind |-> "tick", mode |-> "cumulative",
     start |-> <<d.length \div IdBlock, d.length % IdBlock>>,
     count |-> NextN(d) - d.length]

\* generatePoints(nextN, nextN * 100000, params)
IndependentStep(d) ==
    [kind |-> "tick", mode |-> "independent", start |-> <<NextN(d), 0>>,
     count |-> NextN(d)]

\* handleChange('minSampleSize', val)
SetMinSampleSize(val) ==
    /\ drv' = [drv EXCEPT !.minSampleSize = val]
    /\ UNCHANGED <<precision, rn, gp, reads, lastGen, olsPc, olsData, olsResult, app>>

\* handleChange('maxSampleSize', val)
SetMaxSampleSize(val) ==
    /\ drv' = [drv EXCEPT !.maxSampleSize = val]
    /\ UNCHANGED <<precision, rn, gp, reads, lastGen, olsPc, olsData, olsResult, app>>

\* handleChange('samplingMode', 'cumulative' | 'independent')
SetSamplingMode(mode) ==
    /\ drv' = [drv EXCEPT !.samplingMode = mode]
    /\ UNCHANGED <<precision, rn, gp, reads, lastGen, olsPc, olsData, olsResult, app>>

\* onClick={() => setIsRunning(!isRunning)}, disabled={count >= params.maxSampleSize}
ToggleRunning ==
    /\ ~(drv.length >= drv.maxSampleSize)
    /\ drv' = [drv EXCEPT !.isRunning = ~drv.isRunning]
    /\ UNCHANGED <<precision, rn, gp, reads, lastGen, olsPc, olsData, olsResult, app>>

\* resetSimulation: the data becomes generatePoints(params.minSampleSize, 0, params)
ResetSimulation ==
    /\ drv' = [drv EXCEPT !.isRunning = FALSE, !.length = drv.minSampleSize,
                          !.ticks = 0, !.prev = drv.last,
                          !.last = [kind |-> "reset", mode |-> drv.samplingMode,
                                    start |-> <<0, 0>>, count |-> drv.minSampleSize]]
    /\ UNCHANGED <<precision, rn, gp, reads, lastGen, olsPc, olsData, olsResult, app>>

\* animate -> updateSimulation at the maximum: setIsRunning(false); return currentData;
TickAtMax ==
    /\ drv.isRunning
    /\ drv.length >= drv.maxSampleSize
    /\ drv' = [drv EXCEPT !.isRunning = FALSE]
    /\ UNCHANGED <<precision, rn, gp, reads, lastGen, olsPc, olsData, olsResult, app>>

\* animate -> updateSimulation below the maximum; the ticks since the last
\* reset are capped at MaxTicks
Tick ==
    /\ drv.isRunning
    /\ ~(drv.length >= drv.maxSampleSize)
    /\ drv.ticks < MaxTicks
    /\ IF drv.samplingMode = "cumulative"
       THEN IF NextN(drv) - drv.length <= 0
            THEN UNCHANGED drv
            ELSE drv' = [drv EXCEPT !.length = NextN(drv), !.ticks = drv.ticks + 1,
                                    !.prev = drv.last, !.last = CumulativeStep(drv)]
       ELSE drv' = [drv EXCEPT !.length = NextN(drv), !.ticks = drv.ticks + 1,
                               !.prev = drv.last, !.last = IndependentStep(drv)]
    /\ UNCHANGED <<precision, rn, gp, reads, lastGen, olsPc, olsData, olsResult, app>>

----------------------------------------------------------------------------
(* The simulation driver with its data (App.tsx): params, isRunning, data, *)
(* ols and history, and the handlers that change them.  The sample sizes   *)
(* come from parseFloat of a number input (MainPlot.tsx line 297) and need *)
(* not be whole: a size is a fraction <<n, d>>, d > 0, compared exactly.   *)

SizeOf(i) == <<i, 1>>
\* parseFloat('') of a cleared field: NaN, for which every comparison is false
SizeNaN == <<0, 0>>
SizeLess(a, b) == a[2] # 0 /\ b[2] # 0 /\ a[1] * b[2] < b[1] * a[2]
SizeLeq(a, b) == a[2] # 0 /\ b[2] # 0 /\ a[1] * b[2] <= b[1] * a[2]
SizeEq(a, b) == a[2] # 0 /\ b[2] # 0 /\ a[1] * b[2] = b[1] * a[2]
SizePlus(a, b) == <<a[1] * b[2] + b[1] * a[2], a[2] * b[2]>>
SizeMinus(a, b) == <<a[1] * b[2] - b[1] * a[2], a[2] * b[2]>>
\* Math.min: NaN when either argument is
SizeMin(a, b) == IF b[2] = 0 \/ SizeLess(b, a) THEN b ELSE a

\* for (let i = 0; i < count; i++): the passes the loop makes for a count
\* that need not be whole
LoopPasses(count) == IF count[1] <= 0 THEN 0 ELSE (count[1] + count[2] - 1) \div count[2]

\* startId + i for a start id that is a size (nextN * 100000); a NaN nextN is
\* also the count of its call, whose loop makes no pass and reads no id
StartIdOf(size, factor) == IF size[2] = 0 THEN 0 ELSE (size[1] * factor) \div size[2]

\* useState<SimulationParams>({...}) with the sizes as fractions
AppParams(minSampleSize, maxSampleSize, batchSize, samplingMode) ==
    [DefaultParams EXCEPT !.minSampleSize = minSampleSize,
                          !.maxSampleSize = maxSampleSize,
                          !.batchSize = batchSize,
                          !.samplingMode = samplingMode]

\* What a tick found when it started: the arguments of updateSimulation
NoBefore ==
    [params |-> DefaultParams, isRunning |-> FALSE, data |-> <<>>, ols |-> OlsZero,
     history |-> <<>>]
BeforeOf(a) ==
    [params |-> a.params, isRunning |-> a.isRunning, data |-> a.data, ols |-> a.ols,
     history |-> a.history]

\* The state after construction: no data, ols all zero, empty history
AppIdle ==
    [params |-> AppParams(<<10, 1>>, <<2000, 1>>, 1, "cumulative"),
     isRunning |-> FALSE, data |-> <<>>, ols |-> OlsZero, history |-> <<>>,
     pc |-> "mount", last |-> "none", before |-> NoBefore]

\* { n: nextData.length, estimatedSlope, estimatedIntercept, slopeStdErr }
HistoryPointOf(data, ols) ==
    [n |-> Len(data), estimatedSlope |-> ols.slope,
     estimatedIntercept |-> ols.intercept, slopeStdErr |-> ols.slopeStdErr]

\* Every randomNormal of generatePoints(count, startId, params) returns
GenerateReturns(count, startId, currentParams) ==
    \A i \in 0..(LoopPasses(count) - 1) : PointReturns(IdOf(startId, i), currentParams)

\* generatePoints for a count that need not be whole
GeneratePointsOf(count, startId, currentParams) ==
    generatePoints(LoopPasses(count), startId, currentParams)

\* A dataset with its fit: const newOls = calculateOLS(nextData)
FitOfNeverFitted(data0) == [data |-> data0, ols |-> OlsZero]
FitOf(data0) ==
    CHOOSE r \in {[data |-> data, ols |-> calculateOLS(data)] : data \in {data0}} : TRUE

\* resetSimulation: what it leaves in the state
ResetResult(a0, kind) ==
    CHOOSE r \in
      {[a0 EXCEPT !.isRunning = FALSE, !.data = fit.data, !.ols = fit.ols,
                  !.history = <<HistoryPointOf(fit.data, fit.ols)>>,
                  !.pc = "ready", !.last = kind, !.before = NoBefore] :
         fit \in {FitOf(GeneratePointsOf(a0.params.minSampleSize, 0, a0.params))}} : TRUE

\* if (currentData.length >= params.maxSampleSize)
AtMaxStrict(a) == SizeLess(a.params.maxSampleSize, SizeOf(Len(a.data)))
AtMax(a) == SizeLeq(a.params.maxSampleSize, SizeOf(Len(a.data)))

\* let nextN = Math.min(currentN + params.batchSize, params.maxSampleSize);
NextSize(a) ==
    SizeMin(SizePlus(SizeOf(Len(a.data)), SizeOf(a.params.batchSize)),
            a.params.maxSampleSize)

\* const pointsToAdd = nextN - currentN;
PointsToAdd(a) == SizeMinus(NextSize(a), SizeOf(Len(a.data)))

\* The data a tick below the maximum produces
NextData(a) ==
    IF a.params.samplingMode = "cumulative"
    THEN a.data \o GeneratePointsOf(PointsToAdd(a), Len(a.data), a.params)
    ELSE GeneratePointsOf(NextSize(a), StartIdOf(NextSize(a), IdBlock), a.params)

\* The generatePoints call of a tick below the maximum returns
NextDataReturns(a) ==
    IF a.params.samplingMode = "cumulative"
    THEN GenerateReturns(PointsToAdd(a), Len(a.data), a.params)
    ELSE GenerateReturns(NextSize(a), StartIdOf(NextSize(a), IdBlock), a.params)

\* setHistory(prevHist => [...prevHist, {...}])
HistoryAfterPerPoint(history, before, nextData, newOls) ==
    history \o [i \in 1..(Len(nextData) - before) |-> HistoryPointOf(nextData, newOls)]
HistoryAfter(history, before, nextData, newOls) ==
    Append(history, HistoryPointOf(nextData, newOls))

\* updateSimulation below the maximum: what it leaves in the state
UpdateResult(a0) ==
    CHOOSE r \in
      {[a0 EXCEPT !.data = fit.data, !.ols = fit.ols,
                  !.history = HistoryAfter(a0.history, Len(a0.data), fit.data, fit.ols),
                  !.last = "tick", !.before = BeforeOf(a0)] :
         fit \in {FitOf(NextData(a0))}} : TRUE

\* Initial load: useEffect(() => { if (data.length === 0) resetSimulation(); }, [])
InitialLoad ==
    /\ app.pc = "mount"
    /\ GenerateReturns(app.params.minSampleSize, 0, app.params)
    /\ app' = ResetResult(app, "load")
    /\ UNCHANGED <<precision, rn, gp, reads, lastGen, olsPc, olsData, olsResult, drv>>

\* handleChange('seed', val) with a new seed; the effect on [params.seed] is due
HandleChangeSeed(val) ==
    /\ app.pc = "ready"
    /\ val # app.params.seed
    /\ app' = [app EXCEPT !.params.seed = val, !.pc = "seed_effect",
                          !.last = "other", !.before = NoBefore]
    /\ UNCHANGED <<precision, rn, gp, reads, lastGen, olsPc, olsData, olsResult, drv>>

\* useEffect(() => { if (data.length > 0) resetSimulation(); }, [params.seed])
SeedChangeEffect ==
    /\ app.pc = "seed_effect"
    /\ IF Len(app.data) > 0
       THEN /\ GenerateReturns(app.params.minSampleSize, 0, app.params)
            /\ app' = ResetResult(app, "seed")
       ELSE app' = [app EXCEPT !.pc = "ready"]
    /\ UNCHANGED <<precision, rn, gp, reads, lastGen, olsPc, olsData, olsResult, drv>>

\* handleChange('trueSlope', val)
HandleChangeTrueSlope(val) ==
    /\ app.pc = "ready"
    /\ val # app.params.trueSlope
    /\ app' = [app EXCEPT !.params.trueSlope = val, !.last = "other", !.before = NoBefore]
    /\ UNCHANGED <<precision, rn, gp, reads, lastGen, olsPc, olsData, olsResult, drv>>

\* handleChange('minSampleSize', val)
HandleChangeMinSampleSize(val) ==
    /\ app.pc = "ready"
    /\ val # app.params.minSampleSize
    /\ app' = [app EXCEPT !.params.minSampleSize = val, !.last = "other", !.before = NoBefore]
    /\ UNCHANGED <<precision, rn, gp, reads, lastGen, olsPc, olsData, olsResult, drv>>

\* handleChange('maxSampleSize', val)
HandleChangeMaxSampleSize(val) ==
    /\ app.pc = "ready"
    /\ val # app.params.maxSampleSize
    /\ app' = [app EXCEPT !.params.maxSampleSize = val, !.last = "other", !.before = NoBefore]
    /\ UNCHANGED <<precision, rn, gp, reads, lastGen, olsPc, olsData, olsResult, drv>>

\* handleChange('samplingMode', mode)
HandleChangeSamplingMode(mode) ==
    /\ app.pc = "ready"
    /\ mode # app.params.samplingMode
    /\ app' = [app EXCEPT !.params.samplingMode = mode, !.last = "other", !.before = NoBefore]
    /\ UNCHANGED <<precision, rn, gp, reads, lastGen, olsPc, olsData, olsResult, drv>>

\* onClick={() => setIsRunning(!isRunning)}, disabled={count >= params.maxSampleSize}
StartPause ==
    /\ app.pc = "ready"
    /\ ~AtMax(app)
    /\ app' = [app EXCEPT !.isRunning = ~app.isRunning, !.last = "other",
                          !.before = NoBefore]
    /\ UNCHANGED <<precision, rn, gp, reads, lastGen, olsPc, olsData, olsResult, drv>>

\* onClick={reset}
ResetButton ==
    /\ app.pc = "ready"
    /\ GenerateReturns(app.params.minSampleSize, 0, app.params)
    /\ app' = ResetResult(app, "reset")
    /\ UNCHANGED <<precision, rn, gp, reads, lastGen, olsPc, olsData, olsResult, drv>>

\* animate -> updateSimulation at the maximum: setIsRunning(false); return currentData;
UpdateAtMax ==
    /\ app.pc = "ready"
    /\ app.isRunning
    /\ AtMax(app)
    /\ app' = [app EXCEPT !.isRunning = FALSE, !.last = "stop", !.before = BeforeOf(app)]
    /\ UNCHANGED <<precision, rn, gp, reads, lastGen, olsPc, olsData, olsResult, drv>>

\* animate -> updateSimulation below the maximum
UpdateSimulation ==
    /\ app.pc = "ready"
    /\ app.isRunning
    /\ ~AtMax(app)
    /\ NextDataReturns(app)
    /\ IF app.params.samplingMode = "cumulative" /\ SizeLeq(PointsToAdd(app), SizeOf(0))
       THEN app' = [app EXCEPT !.last = "skip", !.before = BeforeOf(app)]
       ELSE app' = UpdateResult(app)
    /\ UNCHANGED <<precision, rn, gp, reads, lastGen, olsPc, olsData, olsResult, drv>>

----------------------------------------------------------------------------
(* The random-number specification: calls of randomNormal, one after another *)

\* Seed 631835670 is 2^32 - 2 * 0x6D2B79F5: slot 2 hashes the input 0.
Seeds == {0, 42, 631835670, -5}
Indexes == 0..MaxIndex
Means == {Num(0), Num(1)}
StdDevs == {Num(0), Num(1), Num(2)}

RngInit ==
    /\ precision = MantBits
    /\ rn = RnIdle
    /\ gp = GpIdle
    /\ reads = {}
    /\ lastGen = LastGenNone
    /\ olsPc = "idle"
    /\ olsData = <<>>
    /\ olsResult = OlsZero
    /\ drv = DrvInit
    /\ app = AppIdle

RngNext ==
    \/ \E mean \in Means, stdDev \in StdDevs, seed \in Seeds, index \in Indexes :
          RnCall(mean, stdDev, seed, index)
    \/ RnTestU
    \/ RnBodyU
    \/ RnTestV
    \/ RnBodyV
    \/ RnReturn
    \/ RnNextCall

\* A call runs to its end on one thread: each step of the function that can be
\* taken is taken (the caller's next call is not forced).
RngFairness ==
    /\ WF_vars(RnTestU) /\ WF_vars(RnBodyU)
    /\ WF_vars(RnTestV) /\ WF_vars(RnBodyV)
    /\ WF_vars(RnReturn)

RngSpec == RngInit /\ [][RngNext]_vars /\ RngFairness

\* C2: every call of randomNormal terminates with a result: a call that has
\* reached the first rejection loop eventually reaches its return, for every
\* seed and index, those whose slot hashes to exactly 0 included.
C2_RandomNormalTerminates == (rn.pc = "test_u") ~> (rn.pc = "done")

\* C5: seededRandom returns k / 2^32 for an integer 0 <= k < 2^32, so a value
\* in [0, 1): every u and v a call of randomNormal has drawn from it is such a
\* k (both 16-bit halves within 0..65535).
C5_SeededRandomRange ==
    \A slot \in {rn.index * 2, rn.index * 2 + 1} :
        LET k == seededRandom(rn.seed, slot)
        IN  /\ k[1] \in 0..(Half - 1)
            /\ k[2] \in 0..(Half - 1)
            /\ (rn.pc \in {"test_v", "body_v", "transform", "done"} /\ slot = rn.index * 2)
                   => rn.u = k
            /\ (rn.pc \in {"transform", "done"} /\ slot = rn.index * 2 + 1) => rn.v = k

\* C5 witness: a call has drawn a u whose int32 reading is negative (top bit
\* set), the case the final `>>> 0` exists for.
C5_Witness == rn.pc = "done" /\ rn.u[1] >= 32768 /\ rn.v[1] < 32768 /\ rn.v # <<0, 0>>

----------------------------------------------------------------------------
(* The generator specification: calls of generatePoints, one after another *)

GenParams ==
    {[DefaultParams EXCEPT !.seed = seed, !.noiseLevel = noiseLevel] :
        seed \in {42, 7}, noiseLevel \in {Num(0), Num(2)}}

GenInit == RngInit

GenNext ==
    \/ \E count \in 0..MaxCount, startId \in 0..MaxStartId, currentParams \in GenParams :
          GpCall(count, startId, currentParams)
    \/ GpIterate
    \/ GpReturn
    \/ GpNextCall
    \/ GpDiscard

GenSpec == GenInit /\ [][GenNext]_vars

\* The ids of a call: startId .. startId + count - 1
IdRange(count, startId) == startId..(startId + count - 1)

C7_PointDependsOnlyOnId ==
    gp.pc = "done" =>
      /\ (lastGen.called /\ lastGen.currentParams = gp.currentParams) =>
            \A id \in IdRange(gp.count, gp.startId) \cap IdRange(lastGen.count, lastGen.startId) :
                gp.points[id - gp.startId + 1] = lastGen.points[id - lastGen.startId + 1]
      /\ \A k \in 0..gp.count :
            gp.points = generatePoints(k, gp.startId, gp.currentParams)
                          \o generatePoints(gp.count - k, gp.startId + k, gp.currentParams)

\* C7 witness: two finished calls with the same parameters, different start
\* ids and at least two ids in common.
C7_Witness ==
    /\ gp.pc = "done" /\ lastGen.called
    /\ lastGen.currentParams = gp.currentParams
    /\ lastGen.startId # gp.startId
    /\ gp.currentParams.noiseLevel # Num(0)
    /\ Cardinality(IdRange(gp.count, gp.startId)
                     \cap IdRange(lastGen.count, lastGen.startId)) >= 2

\* C8: a call returns exactly count points, in order, the i-th with id
\* startId + i, and no id twice.
C8_CountAndIds ==
    /\ gp.pc \in {"loop", "done"} => Len(gp.points) = gp.i
    /\ gp.pc = "done" =>
          /\ Len(gp.points) = gp.count
          /\ \A i \in 1..Len(gp.points) : gp.points[i].id = gp.startId + (i - 1)
          /\ \A i, j \in 1..Len(gp.points) : i # j => gp.points[i].id # gp.points[j].id

\* C8 witness: a finished call of three points from a non-zero start id.
C8_Witness == gp.pc = "done" /\ gp.count = 3 /\ gp.startId > 0 /\ Len(gp.points) = 3

\* C9: no RNG slot is shared between two draws: the slots read for the points
\* of a call (x, u and v of each id) are pairwise distinct, within a point and
\* between points; and randomNormal reads disjoint slot pairs for distinct
\* indexes.
C9_SlotsDisjoint ==
    /\ \A r1, r2 \in reads : r1 # r2 => r1.slot # r2.slot
    /\ \A id \in IdRange(gp.i, gp.startId) : SlotsOf(id) \subseteq reads
    /\ \A i, j \in (0..MaxIndex) \cup {NoiseIndex(id) : id \in IdRange(gp.count, gp.startId)} :
          i # j => {USlot(i), VSlot(i)} \cap {USlot(j), VSlot(j)} = {}

\* C9 witness: a call has read the slots of three points.
C9_Witness == gp.pc = "done" /\ Cardinality(reads) = 9 /\ gp.startId > 0

----------------------------------------------------------------------------
(* The regression specification: calls of calculateOLS on sequences of     *)
(* points, in the arithmetic of the program                                *)

OlsXs == {0, 1, 7}
OlsYs == {0, 1, 200}
OlsPoints == {[x |-> Num(a), y |-> Num(b)] : a \in OlsXs, b \in OlsYs}
OlsInputs == UNION {[1..k -> OlsPoints] : k \in 0..MaxPoints}

\* DataPoint { id, x, y }
DataOf(f) == [i \in 1..Len(f) |-> [id |-> i - 1, x |-> f[i].x, y |-> f[i].y]]

\* calculateOLS(data) is called
OlsCall(data) ==
    /\ olsPc = "idle"
    /\ olsPc' = "fit"
    /\ olsData' = data
    /\ UNCHANGED <<precision, rn, gp, reads, lastGen, olsResult, drv, app>>

\* calculateOLS returns
OlsReturn ==
    /\ olsPc = "fit"
    /\ olsPc' = "done"
    /\ olsResult' = calculateOLS(olsData)
    /\ UNCHANGED <<precision, rn, gp, reads, lastGen, olsData, drv, app>>

\* The next call may start.
OlsNextCall ==
    /\ olsPc = "done"
    /\ olsPc' = "idle"
    /\ olsData' = <<>>
    /\ olsResult' = OlsZero
    /\ lastGen' = LastGenNone
    /\ UNCHANGED <<precision, rn, gp, reads, drv, app>>

OlsInit == RngInit

OlsNext ==
    \/ \E f \in OlsInputs : OlsCall(DataOf(f))
    \/ OlsReturn
    \/ OlsNextCall

OlsSpec == OlsInit /\ [][OlsNext]_vars

SameX(data) == \A i \in 1..Len(data) : data[i].x = data[1].x

\* C1: every field calculateOLS returns (slope, intercept, rSquared,
\* slopeStdErr) is a finite number, whatever the points.
C1_FieldsFinite ==
    olsPc = "done" =>
        /\ IsFinite(olsResult.slope)
        /\ IsFinite(olsResult.intercept)
        /\ IsFinite(olsResult.rSquared)
        /\ IsFinite(olsResult.slopeStdErr)

\* C3: fewer than three points, or three or more points that all have the
\* same x, give exactly {slope: 0, intercept: 0, rSquared: 0, slopeStdErr: 0}.
C3_DegenerateIsZero ==
    (olsPc = "done" /\ (Len(olsData) < 3 \/ SameX(olsData))) => olsResult = OlsZero

----------------------------------------------------------------------------
(* The exact-arithmetic specification: points generated and fitted as the  *)
(* driver does (generatePoints, then calculateOLS), with no rounding       *)

ExactParams ==
    {[DefaultParams EXCEPT !.trueSlope = slope, !.trueIntercept = intercept,
                           !.noiseLevel = noiseLevel, !.seed = seed] :
        slope \in {<<0, 1>>, <<3, 2>>, <<-2, 1>>}, intercept \in {<<2, 1>>, <<0, 1>>},
        noiseLevel \in {<<0, 1>>, <<2, 1>>}, seed \in {42, 7}}

\* The driver is about to call generatePoints(count, startId, params)
GenerateCall(count, startId, currentParams) ==
    /\ olsPc = "idle"
    /\ olsPc' = "generate"
    /\ lastGen' = [called |-> FALSE, count |-> count, startId |-> startId,
                   currentParams |-> currentParams, points |-> <<>>]
    /\ UNCHANGED <<precision, rn, gp, reads, olsData, olsResult, drv, app>>

\* nextData = generatePoints(...)
Generate ==
    /\ olsPc = "generate"
    /\ olsPc' = "fit"
    /\ lastGen' = [lastGen EXCEPT
                     !.called = TRUE,
                     !.points = generatePoints(lastGen.count, lastGen.startId,
                                               lastGen.currentParams)]
    /\ olsData' = lastGen'.points
    /\ UNCHANGED <<precision, rn, gp, reads, olsResult, drv, app>>

ExactInit ==
    /\ precision = 0
    /\ rn = RnIdle
    /\ gp = GpIdle
    /\ reads = {}
    /\ lastGen = LastGenNone
    /\ olsPc = "idle"
    /\ olsData = <<>>
    /\ olsResult = OlsZero
    /\ drv = DrvInit
    /\ app = AppIdle

\* const newOls = calculateOLS(nextData) is OlsReturn
ExactNext ==
    \/ \E count \in 0..(MaxCount + 1), startId \in 0..MaxStartId,
          currentParams \in ExactParams :
             GenerateCall(count, startId, currentParams)
    \/ Generate
    \/ OlsReturn
    \/ OlsNextCall

ExactSpec == ExactInit /\ [][ExactNext]_vars

\* The generated points are noiseless, at least three, and not all at one x
Noiseless ==
    /\ olsPc = "done"
    /\ lastGen.called
    /\ lastGen.currentParams.noiseLevel = <<0, 1>>
    /\ Len(olsData) >= 3
    /\ ~SameX(olsData)

----------------------------------------------------------------------------
(* The driver specification: the controls, resets and ticks, at the level  *)
(* of point ids                                                            *)

MinSampleSizes == {3, 10, IdBlock}
MaxSampleSizes == {12, 2000, IdBlock + 3}

DrvNext ==
    \/ \E val \in MinSampleSizes : SetMinSampleSize(val)
    \/ \E val \in MaxSampleSizes : SetMaxSampleSize(val)
    \/ \E mode \in {"cumulative", "independent"} : SetSamplingMode(mode)
    \/ ToggleRunning
    \/ ResetSimulation
    \/ TickAtMax
    \/ Tick

DrvSpec == RngInit /\ [][DrvNext]_vars

\* C10: in independent mode the ids generated by a tick are disjoint from
\* the ids generated by the step before it, a tick or the reset, for every
\* minSampleSize and maxSampleSize the controls accept.
C10_ConsecutiveStepsDisjoint ==
    (/\ drv.last.kind = "tick"
     /\ drv.last.mode = "independent"
     /\ \/ drv.prev.kind = "reset"
        \/ drv.prev.kind = "tick" /\ drv.prev.mode = "independent")
    => StepsDisjoint(drv.prev, drv.last)

----------------------------------------------------------------------------
(* The application specification: the driver with its data, from the mount *)
(* through any sequence of control changes, resets and ticks               *)

\* Seed 631835670 makes slot 2, the first u of point 0, hash to 0.
AppSeeds == {42, 7, 631835670}
AppSlopes == {<<3, 2>>, <<0, 1>>}
AppMinSizes == {<<2, 1>>, <<3, 1>>}
AppMaxSizes == {<<3, 1>>, <<7, 2>>}
SamplingModes == {"cumulative", "independent"}

AppInitWith(batchSizes, maxSizes) ==
    /\ precision = MantBits
    /\ rn = RnIdle
    /\ gp = GpIdle
    /\ reads = {}
    /\ lastGen = LastGenNone
    /\ olsPc = "idle"
    /\ olsData = <<>>
    /\ olsResult = OlsZero
    /\ drv = DrvInit
    /\ \E minSampleSize \in AppMinSizes, maxSampleSize \in maxSizes,
          batchSize \in batchSizes, samplingMode \in SamplingModes :
            app = [AppIdle EXCEPT !.params = AppParams(minSampleSize, maxSampleSize,
                                                        batchSize, samplingMode)]

\* batchSize: 1, which no control changes
AppInit == AppInitWith({1}, AppMaxSizes)

AppNext ==
    \/ InitialLoad
    \/ \E val \in AppSeeds : HandleChangeSeed(val)
    \/ SeedChangeEffect
    \/ \E val \in AppSlopes : HandleChangeTrueSlope(val)
    \/ \E val \in AppMinSizes : HandleChangeMinSampleSize(val)
    \/ \E val \in AppMaxSizes : HandleChangeMaxSampleSize(val)
    \/ \E mode \in SamplingModes : HandleChangeSamplingMode(mode)
    \/ StartPause
    \/ ResetButton
    \/ UpdateAtMax
    \/ UpdateSimulation

\* The effect of a seed change runs once the change is rendered.
AppFairness == WF_vars(SeedChangeEffect)

AppSpec == AppInit /\ [][AppNext]_vars /\ AppFairness

\* updateSimulation for every batch size of SimulationParams
BatchSizes == {1, 2, 3}
TickMaxSizes == AppMaxSizes \cup {<<4, 1>>, <<5, 1>>}

TickInit == AppInitWith(BatchSizes, TickMaxSizes)

TickNext ==
    \/ InitialLoad
    \/ \E val \in TickMaxSizes : HandleChangeMaxSampleSize(val)
    \/ \E mode \in SamplingModes : HandleChangeSamplingMode(mode)
    \/ StartPause
    \/ ResetButton
    \/ UpdateAtMax
    \/ UpdateSimulation

TickSpec == TickInit /\ [][TickNext]_vars

----------------------------------------------------------------------------
(* The run specification: the controls are set while the simulation is     *)
(* stopped, it is started, and then only the animation loop acts           *)

\* Max Size (N): whole, fractional, or a cleared field
RunMaxSizes == {<<3, 1>>, <<4, 1>>, <<7, 2>>, SizeNaN}

RunInit == AppInitWith(BatchSizes, {<<3, 1>>, <<4, 1>>})

\* handleChange('maxSampleSize', val) before the start
SetMaxWhileStopped ==
    /\ ~app.isRunning
    /\ \E val \in RunMaxSizes : HandleChangeMaxSampleSize(val)

\* The start button, when it reads Start
Start ==
    /\ ~app.isRunning
    /\ StartPause

\* A tick below the maximum, for as long as the history is within MaxTicks
\* entries after the first
RunTick ==
    /\ Len(app.history) <= MaxTicks
    /\ UpdateSimulation

RunNext ==
    \/ InitialLoad
    \/ SetMaxWhileStopped
    \/ Start
    \/ UpdateAtMax
    \/ RunTick

\* requestAnimationFrame(animate) while isRunning: the next frame comes
RunFairness == WF_vars(UpdateAtMax) /\ WF_vars(RunTick)

RunSpec == RunInit /\ [][RunNext]_vars /\ RunFairness

\* The state resetSimulation leaves: stopped, the data generate(minSampleSize,
\* 0, params) under the current params, its fit, and the one history entry
\* for it
FreshlyReset ==
    /\ app.pc = "ready"
    /\ ~app.isRunning
    /\ app.data = GeneratePointsOf(app.params.minSampleSize, 0, app.params)
    /\ app.ols = calculateOLS(app.data)
    /\ app.history = <<HistoryPointOf(app.data, app.ols)>>

\* C11: whenever the seed has changed while the dataset is non-empty, the
\* driver resets before anything else runs: the simulation is stopped, the
\* dataset is generate(minSampleSize, 0, params) under the new seed, and the
\* history holds the single entry for it.
C11_SeedChangeResets ==
    (app.pc = "seed_effect" /\ Len(app.data) > 0) ~> (app.last = "seed" /\ FreshlyReset)

\* The last step was a tick: updateSimulation ran on app.before
Ticked == app.last \in {"tick", "skip", "stop"}

\* C12: a tick that produces a new dataset appends exactly one HistoryPoint,
\* whatever the batchSize: the earlier entries stay, in order, and the new one
\* has n = the new length and the slope, intercept and slopeStdErr of
\* calculateOLS on the new dataset.
C12_OneHistoryPointPerTick ==
    app.last = "tick" =>
        /\ Len(app.history) = Len(app.before.history) + 1
        /\ SubSeq(app.history, 1, Len(app.before.history)) = app.before.history
        /\ app.history[Len(app.history)] =
              [n |-> Len(app.data),
               estimatedSlope |-> calculateOLS(app.data).slope,
               estimatedIntercept |-> calculateOLS(app.data).intercept,
               slopeStdErr |-> calculateOLS(app.data).slopeStdErr]

\* C12 witness: a second tick that added two points at once.
C12_Witness ==
    /\ app.last = "tick"
    /\ app.before.params.batchSize >= 2
    /\ Len(app.data) = Len(app.before.data) + 2
    /\ Len(app.history) = 3

\* The ids of a dataset
IdsOf(data) == {data[i].id : i \in 1..Len(data)}

\* C13: a cumulative tick keeps the dataset it found as a prefix and appends
\* exactly min(batchSize, maxSampleSize - currentN) points with ids currentN,
\* currentN + 1, ...; an independent tick replaces the dataset by nextN points
\* generated afresh.
C13_CumulativeKeepsIndependentReplaces ==
    app.last = "tick" =>
        IF app.before.params.samplingMode = "cumulative"
        THEN /\ SubSeq(app.data, 1, Len(app.before.data)) = app.before.data
             /\ SizeEq(SizeOf(Len(app.data) - Len(app.before.data)),
                       SizeMin(SizeOf(app.before.params.batchSize),
                               SizeMinus(app.before.params.maxSampleSize,
                                         SizeOf(Len(app.before.data)))))
             /\ \A i \in (Len(app.before.data) + 1)..Len(app.data) :
                   app.data[i].id = i - 1
        ELSE /\ SizeEq(SizeOf(Len(app.data)), NextSize(app.before))
             /\ IdsOf(app.data) \cap IdsOf(app.before.data) = {}
             /\ \A i \in 1..Len(app.data) :
                   app.data[i] = PointOf(app.data[i].id, app.before.params)

\* C17: a tick that finds the dataset already at maxSampleSize or longer sets
\* isRunning to false and leaves the dataset, the OLS result and the history
\* as they were.
C17_TickAtMaxOnlyStops ==
    (Ticked /\ SizeLeq(app.before.params.maxSampleSize, SizeOf(Len(app.before.data)))) =>
        /\ ~app.isRunning
        /\ app.data = app.before.data
        /\ app.ols = app.before.ols
        /\ app.history = app.before.history

\* C17 witness: a running simulation that had reached its maximum by ticks was
\* stopped by the next tick.
C17_Witness ==
    /\ app.last = "stop"
    /\ app.before.isRunning /\ ~app.isRunning
    /\ Len(app.history) >= 2
    /\ SizeEq(SizeOf(Len(app.data)), app.params.maxSampleSize)

\* C18: a tick that starts below maxSampleSize with batchSize >= 1 leaves a
\* dataset of length exactly min(currentN + batchSize, maxSampleSize), longer
\* than before and not above maxSampleSize, in both sampling modes.
C18_TickStaysWithinMax ==
    (/\ Ticked
     /\ SizeLess(SizeOf(Len(app.before.data)), app.before.params.maxSampleSize)
     /\ app.before.params.batchSize >= 1) =>
        /\ SizeEq(SizeOf(Len(app.data)),
                  SizeMin(SizeOf(Len(app.before.data) + app.before.params.batchSize),
                          app.before.params.maxSampleSize))
        /\ Len(app.data) > Len(app.before.data)
        /\ SizeLeq(SizeOf(Len(app.data)), app.before.params.maxSampleSize)

\* C19: after the initial load the stored OLS result is calculateOLS of the
\* current dataset, the history is not empty, and its last entry has n = the
\* length of the dataset.
C19_DerivedStateInSync ==
    app.pc # "mount" =>
        /\ app.ols = calculateOLS(app.data)
        /\ Len(app.history) >= 1
        /\ app.history[Len(app.history)].n = Len(app.data)

\* C19 witness: a tick after a reset, then a change of a control.
C19_Witness ==
    /\ app.pc = "ready"
    /\ app.last = "other"
    /\ Len(app.history) = 2
    /\ Len(app.data) = 3
    /\ app.ols # OlsZero

\* C20: every point of the dataset is the point the generator produces for its
\* id under the current parameters, and no id occurs twice.
C20_PointsMatchCurrentParams ==
    app.pc = "ready" =>
        /\ \A i \in 1..Len(app.data) :
              app.data[i] = generatePoints(1, app.data[i].id, app.params)[1]
        /\ \A i, j \in 1..Len(app.data) : i # j => app.data[i].id # app.data[j].id


----------------------------------------------------------------------------
(* The exact regression specification: calls of calculateOLS on sequences  *)
(* of whole-valued points, with no rounding                                *)

FitXs == {0, 1, 3}
FitYs == {-1, 2, 5}
FitPoints == {[x |-> <<a, 1>>, y |-> <<b, 1>>] : a \in FitXs, b \in FitYs}

\* The points (1,2), (2,3), (3,5), (4,7)
KnownExample ==
    <<[x |-> <<1, 1>>, y |-> <<2, 1>>], [x |-> <<2, 1>>, y |-> <<3, 1>>],
      [x |-> <<3, 1>>, y |-> <<5, 1>>], [x |-> <<4, 1>>, y |-> <<7, 1>>]>>

FitInputs == UNION {[1..k -> FitPoints] : k \in 0..MaxPoints} \cup {KnownExample}

FitInit == ExactInit

FitNext ==
    \/ \E f \in FitInputs : OlsCall(DataOf(f))
    \/ OlsReturn
    \/ OlsNextCall

FitSpec == FitInit /\ [][FitNext]_vars

\* C14: on the points (1,2), (2,3), (3,5), (4,7) calculateOLS returns slope
\* 1.7 and intercept 0.0 in exact arithmetic.
C14_KnownExample ==
    (olsPc = "done" /\ olsData = DataOf(KnownExample)) =>
        /\ olsResult.slope = <<17, 10>>
        /\ olsResult.intercept = <<0, 1>>

C14_Witness ==
    olsPc = "done" /\ olsData = DataOf(KnownExample) /\ olsResult.slope = <<17, 10>>

\* The sum of a sequence of whole numbers
RECURSIVE SumOf(_)
SumOf(s) == IF s = <<>> THEN 0 ELSE s[1] + SumOf(Tail(s))

\* The closed form on whole-valued points, as a pair of whole numbers:
\* n * sum(xy) - sum(x) * sum(y) over n * sum(xx) - sum(x)^2
ClosedFormSlope(data) ==
    CHOOSE r \in
      {<<n * sxy - sx * sy, n * sxx - sx * sx>> :
         n \in {Len(data)},
         sx \in {SumOf([i \in 1..Len(data) |-> data[i].x[1]])},
         sy \in {SumOf([i \in 1..Len(data) |-> data[i].y[1]])},
         sxy \in {SumOf([i \in 1..Len(data) |-> data[i].x[1] * data[i].y[1]])},
         sxx \in {SumOf([i \in 1..Len(data) |-> data[i].x[1] * data[i].x[1]])}} : TRUE

\* y - (slope * x + intercept) of every point, for the returned line
ResidualsOf(data, ols) ==
    [i \in 1..Len(data) |->
        Sub(data[i].y, Add(Mul(ols.slope, data[i].x), ols.intercept))]

RECURSIVE SumNum(_)
SumNum(s) == IF s = <<>> THEN <<0, 1>> ELSE Add(s[1], SumNum(Tail(s)))

\* C15: for three or more points whose x are not all the same, the returned
\* slope is (n*sum(xy) - sum(x)*sum(y)) / (n*sum(xx) - sum(x)^2), the
\* intercept is (sum(y) - slope*sum(x)) / n, and the line is the
\* least-squares one: its residuals sum to zero and are orthogonal to x.
C15_LeastSquaresLine ==
    (olsPc = "done" /\ Len(olsData) >= 3 /\ ~SameX(olsData)) =>
        LET n == Len(olsData)
            form == ClosedFormSlope(olsData)
            sumX == SumOf([i \in 1..n |-> olsData[i].x[1]])
            sumY == SumOf([i \in 1..n |-> olsData[i].y[1]])
            slope == olsResult.slope
            intercept == olsResult.intercept
            residuals == ResidualsOf(olsData, olsResult)
        IN  /\ slope[2] > 0 /\ intercept[2] > 0
            /\ slope[1] * form[2] = form[1] * slope[2]
            /\ intercept[1] * n * slope[2] = (sumY * slope[2] - slope[1] * sumX) * intercept[2]
            /\ SumNum(residuals) = <<0, 1>>
            /\ SumNum([i \in 1..n |-> Mul(residuals[i], olsData[i].x)]) = <<0, 1>>

\* A fitted line through scattered points: not flat, with nonzero residuals
C15_Witness ==
    /\ olsPc = "done" /\ Len(olsData) >= 3 /\ ~SameX(olsData)
    /\ olsResult.slope # <<0, 1>>
    /\ \E i \in 1..Len(olsData) : ResidualsOf(olsData, olsResult)[i] # <<0, 1>>

SameY(data) == \A i \in 1..Len(data) : data[i].y = data[1].y

\* ssTot and ssRes as the second loop leaves them for the returned line
SumsOfSquares(data) ==
    CHOOSE r \in
      {SsFrom(1, [ssTot |-> <<0, 1>>, ssRes |-> <<0, 1>>], data,
              Slope(Len(data), sums, Denominator(Len(data), sums)),
              Intercept(Len(data), sums,
                        Slope(Len(data), sums, Denominator(Len(data), sums))),
              MeanY(Len(data), sums)) :
         sums \in {SumsFrom(1, SumsZero, data)}} : TRUE

\* C16: three or more points, x not all the same: when every y is the same
\* the result is rSquared 0, slope 0, intercept the common y and slopeStdErr
\* 0; when ssTot is not 0, rSquared is 1 - ssRes/ssTot.
C16_ConstantY ==
    (olsPc = "done" /\ Len(olsData) >= 3 /\ ~SameX(olsData)) =>
        /\ SameY(olsData) =>
              olsResult = [slope |-> <<0, 1>>, intercept |-> olsData[1].y,
                           rSquared |-> <<0, 1>>, slopeStdErr |-> <<0, 1>>]
        /\ LET ss == SumsOfSquares(olsData)
           IN  ~StrictEq(ss.ssTot, <<0, 1>>) =>
                  olsResult.rSquared = Sub(Num(1), Div(ss.ssRes, ss.ssTot))

\* The simulation is running
Running == app.pc = "ready" /\ app.isRunning

\* The n of the last history entry
LastN(history) == history[Len(history)].n

\* C21: a running simulation stops by itself when only ticks act: the dataset
\* length comes to equal maxSampleSize (when it started at or below it), the
\* simulation then stops, a stopped simulation at its maximum cannot be
\* started or ticked again, and every tick that produces a dataset adds a
\* history entry with a larger n than the one before.
C21_RunningEventuallyStops ==
    /\ (Running /\ SizeLeq(SizeOf(Len(app.data)), app.params.maxSampleSize))
          ~> SizeEq(SizeOf(Len(app.data)), app.params.maxSampleSize)
    /\ Running ~> ~app.isRunning
    /\ [](app.last = "stop" => (~app.isRunning /\ AtMax(app)))
    /\ [](app.last = "tick" => LastN(app.history) > LastN(app.before.history))

=============================================================================
